---- MODULE Spec2Model ----
(***************************************************************************)
(* The deep-research pipeline of research_agent.py (deep_research, its two *)
(* tools search_tool and fetch_page_tool, the asyncio.gather fan-out) and  *)
(* its consumer interact of main.py, as a state machine.                   *)
(*                                                                         *)
(* Strings are sequences of string tokens: an f-string is the sequence of  *)
(* its literal pieces and substituted values.  The four inference callers  *)
(* and the search provider are external: their answers are drawn from      *)
(* small sets, and each may fail.                                          *)
(***************************************************************************)
EXTENDS Integers, Sequences, FiniteSets, TLC

\* ------------------------------------------------------------------ bounds
MaxAngles == 3
MaxToolCalls == 1
MaxHits == 1
MaxToolHits == 6
MaxCalls == 2

\* ------------------------------------------------------- program constants
DiscoveryMaxResults == 3
DefaultMaxResults == 5
ContentLimit == 10000

\* --------------------------------------------------------------- the inputs
UserInputs == {<<>>, <<"NVDA">>}
Entries == {"interact", "direct"}
Subjects == {"NVIDIA Corporation", "Quantum Computing"}
Contexts == {"Semiconductors"}
PageLengths == {0, 1, 9999, 10000, 10001, 25000}
Urls == {"https://a.example", "https://b.example"}
FetchFailures == {"ConnectError", "TimeoutException", "HTTPStatusError", "ParseError"}

NoValue == [none |-> TRUE]

Min(a, b) == IF a < b THEN a ELSE b

Range(s) == {s[i] : i \in 1..Len(s)}

\* str(n) for the small numbers the model formats
Str(n) ==
  CASE n = 0 -> "0" [] n = 1 -> "1" [] n = 2 -> "2" [] n = 3 -> "3"
    [] n = 4 -> "4" [] n = 5 -> "5" [] n = 6 -> "6" [] n = 7 -> "7"
    [] OTHER -> "many"

RECURSIVE Flatten(_)
Flatten(ss) == IF ss = <<>> THEN <<>> ELSE Head(ss) \o Flatten(Tail(ss))

\* sep.join(parts), parts a sequence of token sequences
RECURSIVE Join(_, _)
Join(sep, parts) ==
  IF parts = <<>> THEN <<>>
  ELSE IF Len(parts) = 1 THEN Head(parts)
  ELSE Head(parts) \o <<sep>> \o Join(sep, Tail(parts))

\* ------------------------------------------------------------- stream values
Status(text) == [type |-> "str", text |-> text]

IsStr(update) == update.type = "str"

IsReport(update) == update.type = "ResearchReport"

StatusAnalyzing == Status(<<"Analyzing request...">>)

StatusIdentified(subject, context) ==
  Status(<<"Identified: ", subject, " (", context, ")">>)

StatusDiscovery == Status(<<"Performing initial discovery search...">>)

StatusPlanning == Status(<<"Planning research strategy...">>)

\* the status with len(angles) - 1 in place of len(angles)
StatusDeepDiveOffByOne(angles) ==
  Status(<<"Starting deep dive into ", Str(Len(angles) - 1), " research angles...">>)

StatusDeepDive(angles) ==
  Status(<<"Starting deep dive into ", Str(Len(angles)), " research angles...">>)

StatusWriting == Status(<<"Writing final report...">>)

\* ------------------------------------------------------------------- tools
(* The search provider's answer to one query: `hits` results are available  *)
(* and the provider raises after delivering `failAfter` of them             *)
(* (failAfter = -1: it does not raise).  Result k is the record of rank k.  *)
SearchHit(k) ==
  [title |-> <<"title", Str(k)>>, href |-> <<"href", Str(k)>>, body |-> <<"body", Str(k)>>]

ProviderAnswersUpTo(n) ==
  {[hits |-> h, failAfter |-> f] : h \in 0..n, f \in -1..n}

ProviderAnswers == ProviderAnswersUpTo(MaxHits)

\* ddgs.text(query, max_results): what the iterator yields before it stops or raises
Delivered(answer, max_results) ==
  LET n == Min(answer.hits, max_results)
      m == IF answer.failAfter >= 0 THEN Min(n, answer.failAfter) ELSE n
  IN [k \in 1..m |-> SearchHit(k)]

ProviderRaises(answer, max_results) ==
  answer.failAfter >= 0 /\ answer.failAfter <= Min(answer.hits, max_results)

\* search_tool without its try/except: the provider's error reaches the caller
search_tool_unguarded(answer, max_results) ==
  [raised |-> ProviderRaises(answer, max_results),
   results |-> Delivered(answer, max_results)]

\* search_tool with `results = []` in its except block: an error discards what was received
search_tool_clears_on_error(answer, max_results) ==
  [raised |-> FALSE,
   results |-> IF ProviderRaises(answer, max_results)
               THEN <<>>
               ELSE Delivered(answer, max_results)]

\* search_tool: results appended one by one; an exception ends the loop and
\* the results appended so far are returned
search_tool(answer, max_results) ==
  [raised |-> FALSE, results |-> Delivered(answer, max_results)]

(* One HTTP exchange of fetch_page_tool: `error` names the exception that   *)
(* client.get, raise_for_status or the parser raises ("none": no failure)   *)
(* and `length` is the number of characters of the cleaned page text.       *)
Responses ==
  {[error |-> e, length |-> 0] : e \in FetchFailures}
    \cup {[error |-> "none", length |-> n] : n \in PageLengths}

\* the exception of one attempt: a closed client refuses to send
FetchError(clientOpen, response) ==
  IF ~clientOpen THEN "RuntimeError: client has been closed" ELSE response.error

ErrorString(url, e) == <<"Error fetching ", url, ": ", e>>

PageText(url) == <<"text of ", url>>

\* fetch_page_tool without its try/except
fetch_page_tool_unguarded(clientOpen, url, response) ==
  LET e == FetchError(clientOpen, response)
  IN IF e # "none"
     THEN [raised |-> TRUE, text |-> <<>>, length |-> 0, attempts |-> 1]
     ELSE [raised |-> FALSE, text |-> PageText(url),
           length |-> Min(response.length, ContentLimit), attempts |-> 1]

(* fetch_page_tool: one client.get; any exception becomes the returned     *)
(* string "Error fetching {url}: {e}"; otherwise the cleaned text cut to   *)
(* its first ContentLimit characters.  `length` is the length of a page    *)
(* text (an error string's length is not modelled and is given as 0).      *)
fetch_page_tool(clientOpen, url, response) ==
  LET e == FetchError(clientOpen, response)
  IN IF e # "none"
     THEN [raised |-> FALSE, text |-> ErrorString(url, e), length |-> 0, attempts |-> 1]
     ELSE [raised |-> FALSE, text |-> PageText(url),
           length |-> Min(response.length, ContentLimit), attempts |-> 1]

\* ------------------------------------------------------------- data models
Reverse(s) == [i \in 1..Len(s) |-> s[Len(s) + 1 - i]]

ResearchAngle(t) == [title |-> t, keywords |-> <<t, "outlook">>, description |-> "what to look for"]

AngleTitle(k) ==
  CASE k = 1 -> "SWOT Analysis" [] k = 2 -> "Financials" [] k = 3 -> "Competitors"
    [] OTHER -> "Key trends"

(* What the planner backend may answer: List[ResearchAngle] of any length,  *)
(* here up to MaxAngles angles in one of two orders.                        *)
Plans ==
  LET plan(n) == [k \in 1..n |-> ResearchAngle(AngleTitle(k))]
  IN {plan(n) : n \in 0..MaxAngles} \cup {Reverse(plan(n)) : n \in 0..MaxAngles}

\* the ResearchSection the worker given angles[i] returns
ResearchSection(i, angle) ==
  [title |-> angle.title,
   content |-> <<"findings of worker ", Str(i)>>,
   sources |-> IF i = 1 THEN <<>> ELSE <<"https://a.example", "https://b.example">>]

InventedSection == [title |-> "Outlook", content |-> <<"not from any worker">>, sources |-> <<>>]

ResearchReport(secs) ==
  [type |-> "ResearchReport",
   executive_summary |-> "summary",
   sections |-> secs,
   risks_uncertainties |-> "risks",
   what_to_watch_next |-> <<"earnings", "regulation">>]

(* What the writer backend may answer for a prompt built from `secs`: the  *)
(* schema fixes the fields of a ResearchReport, not its sections.          *)
WriterAnswers(secs) ==
  {ResearchReport(SubSeq(secs, 1, k)) : k \in 0..Len(secs)}
    \cup {ResearchReport(Reverse(secs)), ResearchReport(secs \o <<InventedSection>>)}

\* ------------------------------------------------------------------ prompts
ClassifyPrompt(user_input) == <<"Classify this input: '">> \o user_input \o <<"'">>

DiscoveryQuery(subject, context) == <<subject, " ", context, " overview">>

\* "\n".join([f"- {r['title']}: {r['body']}" for r in results])
InitialContext(results) ==
  Join("\n", [k \in 1..Len(results) |-> <<"- ">> \o results[k].title \o <<": ">> \o results[k].body])

PlanPrompt(subject, context, initial_context) ==
  <<"Topic: ", subject, "\nContext: ", context, "\nInitial Search Context:\n">>
    \o initial_context

WorkerPrompt(angle, subject) ==
  <<"Investigate the angle: '", angle.title, "'.\nDescription: ", angle.description,
    "\nKeywords: ">> \o Join(", ", [k \in 1..Len(angle.keywords) |-> <<angle.keywords[k]>>])
    \o <<"\nSubject: ", subject>>

SectionBlock(section) ==
  <<"## ", section.title, "\n">> \o section.content \o <<"\nSources: ">>
    \o Join(", ", [k \in 1..Len(section.sources) |-> <<section.sources[k]>>]) \o <<"\n\n">>

\* the prompt with the blocks of the sections after the first
SynthesisPromptSkipsFirst(subject, secs) ==
  <<"Subject: ", subject, "\n\n">>
    \o Flatten([k \in 1..(Len(secs) - 1) |-> SectionBlock(secs[k + 1])])

\* synthesis_prompt: the subject line, then one block per section, in order
SynthesisPrompt(subject, secs) ==
  <<"Subject: ", subject, "\n\n">> \o Flatten([k \in 1..Len(secs) |-> SectionBlock(secs[k])])

\* ------------------------------------------------------------------- gather
\* results in the order the tasks finished (asyncio.as_completed)
GatherByCompletion(results, order) == [k \in 1..Len(order) |-> results[order[k]]]

\* asyncio.gather: the results in the order of the awaitables passed to it
GatherResult(results, order) == [k \in 1..Len(results) |-> results[k]]

\* gather(return_exceptions=True) followed by a filter: raises only if nothing succeeded
GatherRaisesIfNoneSucceeds(states) ==
  Len(states) > 0 /\ \A i \in 1..Len(states) : states[i] = "failed"

\* asyncio.gather (return_exceptions=False): the first exception of any task
\* is raised to the awaiter
GatherRaises(states) == \E i \in 1..Len(states) : states[i] = "failed"

\* ----------------------------------------------------------- presentation
Turn(role, content) == [role |-> role, content |-> content]

Histories == {<<>>, <<Turn("user", <<"AAPL">>), Turn("assistant", <<"an earlier report">>)>>}

\* `not user_message` dropped: the empty message is researched like any other
IsEmptyMessageNever(user_message) == FALSE

\* `not user_message`
IsEmptyMessage(user_message) == user_message = <<>>

\* report_md of interact
RenderSection(section) ==
  <<"### ", section.title, "\n">> \o section.content \o <<"\n\n">>
    \o (IF section.sources # <<>>
        THEN <<"**Sources:**\n">>
               \o Join("\n", [k \in 1..Len(section.sources) |-> <<"- ", section.sources[k]>>])
               \o <<"\n\n">>
        ELSE <<>>)

Render(user_message, update) ==
  <<"# Research Report: ">> \o user_message \o <<"\n\n", "## Executive Summary\n",
    update.executive_summary, "\n\n">>
    \o Flatten([k \in 1..Len(update.sections) |-> RenderSection(update.sections[k])])
    \o <<"## Risks & Uncertainties\n", update.risks_uncertainties, "\n\n",
         "## What to Watch Next\n">>
    \o Join("\n", [k \in 1..Len(update.what_to_watch_next) |->
                     <<"- ", update.what_to_watch_next[k]>>])

\* the loop body without the test of history[-1]["role"]: every status adds a turn
OnUpdateAlwaysAppends(history, user_message, update) ==
  IF IsStr(update)
  THEN Append(history, Turn("assistant", update.text))
  ELSE IF IsReport(update)
  THEN [history EXCEPT ![Len(history)].content = Render(user_message, update)]
  ELSE history

\* the loop body of interact for one update
OnUpdate(history, user_message, update) ==
  IF IsStr(update)
  THEN IF history[Len(history)].role # "assistant"
       THEN Append(history, Turn("assistant", update.text))
       ELSE [history EXCEPT ![Len(history)].content = update.text]
  ELSE IF IsReport(update)
  THEN [history EXCEPT ![Len(history)].content = Render(user_message, update)]
  ELSE history

\* -------------------------------------------------------------------- state
VARIABLES
  entry,            \* who calls deep_research: interact, or a direct `async for`
  user_input,       \* the message / the argument of deep_research
  ipc,              \* the consumer's position: start, iter, done, raised
  history,          \* interact's chat history
  pc,               \* deep_research's position (the yield or await it is suspended at)
  client,           \* the httpx.AsyncClient: none, open, closed
  clientsCreated,   \* how many clients the run has created
  emitted,          \* the values deep_research has yielded, in order
  received,         \* the values the consumer has taken from the stream, in order
  classification,   \* classification_res.output
  initial_search_results,
  searchAnswer,     \* what the provider did during the discovery search
  angles,           \* plan_res.output
  wstate,           \* the process_angle tasks: running, done, failed
  toolsUsed,        \* tool calls the tasks have made
  wresult,          \* result.output of each finished task
  completed,        \* the tasks that returned, in the order they returned
  sections,         \* what gather returned
  synthesis_prompt,
  report,           \* final_report_res.output
  calls,            \* the invocations of the inference callers and of the discovery search
  failed,           \* the call whose exception ended the run
  fetchAfterClose,  \* a task called client.get after the client was closed
  toolCalls,        \* calls made when a tool is exercised on its own
  toolIn,
  toolOut

vars ==
  <<entry, user_input, ipc, history, pc, client, clientsCreated, emitted, received,
    classification, initial_search_results, searchAnswer, angles, wstate, toolsUsed,
    wresult, completed, sections, synthesis_prompt, report, calls, failed,
    fetchAfterClose, toolCalls, toolIn, toolOut>>

consumerVars == <<entry, user_input, ipc, history, received>>

workerVars == <<wstate, toolsUsed, wresult, completed, fetchAfterClose>>

stageVars ==
  <<classification, initial_search_results, searchAnswer, angles, sections,
    synthesis_prompt, report>>

toolVars == <<toolCalls, toolIn, toolOut>>

Call(who, arg) == [who |-> who, arg |-> arg]

PipelineInit ==
  /\ ipc = "start"
  /\ pc = "init"
  /\ client = "none"
  /\ clientsCreated = 0
  /\ emitted = <<>>
  /\ received = <<>>
  /\ classification = NoValue
  /\ initial_search_results = <<>>
  /\ searchAnswer = NoValue
  /\ angles = <<>>
  /\ wstate = <<>>
  /\ toolsUsed = 0
  /\ wresult = <<>>
  /\ completed = <<>>
  /\ sections = <<>>
  /\ synthesis_prompt = <<>>
  /\ report = NoValue
  /\ calls = <<>>
  /\ failed = "none"
  /\ fetchAfterClose = FALSE

ToolIdle ==
  /\ toolCalls = 0
  /\ toolIn = NoValue
  /\ toolOut = NoValue

Init ==
  /\ entry \in Entries
  /\ user_input \in UserInputs
  /\ history \in (IF entry = "interact" THEN Histories ELSE {<<>>})
  /\ PipelineInit
  /\ ToolIdle

\* ----------------------------------------------------------------- consumer
\* interact, lines 16-18: an empty message is answered without research
InteractEmpty ==
  /\ entry = "interact"
  /\ ipc = "start"
  /\ IsEmptyMessage(user_input)
  /\ ipc' = "done"
  /\ UNCHANGED <<entry, user_input, history, received, pc, client, clientsCreated,
                 emitted, calls, failed>>
  /\ UNCHANGED <<stageVars, workerVars, toolVars>>

\* interact, lines 21-29: the user turn is appended and the stream is opened
InteractStart ==
  /\ entry = "interact"
  /\ ipc = "start"
  /\ ~IsEmptyMessage(user_input)
  /\ history' = Append(history, Turn("user", user_input))
  /\ ipc' = "iter"
  /\ UNCHANGED <<entry, user_input, received, pc, client, clientsCreated, emitted,
                 calls, failed>>
  /\ UNCHANGED <<stageVars, workerVars, toolVars>>

\* any other caller: `async for update in deep_research(user_input)`
DirectStart ==
  /\ entry = "direct"
  /\ ipc = "start"
  /\ ipc' = "iter"
  /\ UNCHANGED <<entry, user_input, history, received, pc, client, clientsCreated,
                 emitted, calls, failed>>
  /\ UNCHANGED <<stageVars, workerVars, toolVars>>

\* the consumer takes the value deep_research is suspended at
Consume ==
  /\ ipc = "iter"
  /\ Len(received) < Len(emitted)
  /\ LET update == emitted[Len(received) + 1]
     IN /\ received' = Append(received, update)
        /\ history' = IF entry = "interact"
                      THEN OnUpdate(history, user_input, update)
                      ELSE history
  /\ UNCHANGED <<entry, user_input, ipc, pc, client, clientsCreated, emitted, calls,
                 failed>>
  /\ UNCHANGED <<stageVars, workerVars, toolVars>>

\* the stream ended: StopAsyncIteration, or the exception of the failed call
ConsumerEnd ==
  /\ ipc = "iter"
  /\ pc \in {"done", "raised"}
  /\ Len(received) = Len(emitted)
  /\ ipc' = pc
  /\ UNCHANGED <<entry, user_input, history, received, pc, client, clientsCreated,
                 emitted, calls, failed>>
  /\ UNCHANGED <<stageVars, workerVars, toolVars>>

\* deep_research runs only while its consumer awaits the next value
Resumed == ipc = "iter" /\ Len(received) = Len(emitted)

\* ------------------------------------------------------------ deep_research
\* an exception leaves the `async with` block (the client is closed) and the generator
Abort(who) ==
  /\ failed' = who
  /\ pc' = "raised"
  /\ client' = "closed"
  /\ UNCHANGED <<clientsCreated, emitted, calls>>
  /\ UNCHANGED <<consumerVars, stageVars, workerVars, toolVars>>

\* lines 152-156: the client is created, "Analyzing request..." is yielded
Start ==
  /\ pc = "init"
  /\ Resumed
  /\ client' = "open"
  /\ clientsCreated' = clientsCreated + 1
  /\ emitted' = Append(emitted, StatusAnalyzing)
  /\ pc' = "classify"
  /\ UNCHANGED <<calls, failed>>
  /\ UNCHANGED <<consumerVars, stageVars, workerVars, toolVars>>

\* lines 157-159
ClassifyCall ==
  /\ pc = "classify"
  /\ Resumed
  /\ calls' = Append(calls, Call("classifier", ClassifyPrompt(user_input)))
  /\ pc' = "await_classify"
  /\ UNCHANGED <<client, clientsCreated, emitted, failed>>
  /\ UNCHANGED <<consumerVars, stageVars, workerVars, toolVars>>

\* lines 160-164
ClassifyReturn ==
  /\ pc = "await_classify"
  /\ \E s \in Subjects, c \in Contexts :
       /\ classification' = [subject |-> s, context |-> c]
       /\ emitted' = Append(emitted, StatusIdentified(s, c))
  /\ pc' = "discovery_status"
  /\ UNCHANGED <<client, clientsCreated, calls, failed>>
  /\ UNCHANGED <<initial_search_results, searchAnswer, angles, sections,
                 synthesis_prompt, report>>
  /\ UNCHANGED <<consumerVars, workerVars, toolVars>>

ClassifyFail ==
  /\ pc = "await_classify"
  /\ Abort("classifier")

\* line 167
YieldDiscovery ==
  /\ pc = "discovery_status"
  /\ Resumed
  /\ emitted' = Append(emitted, StatusDiscovery)
  /\ pc' = "discovery"
  /\ UNCHANGED <<client, clientsCreated, calls, failed>>
  /\ UNCHANGED <<consumerVars, stageVars, workerVars, toolVars>>

\* lines 168-172: the discovery search, then "Planning research strategy..."
Discovery ==
  /\ pc = "discovery"
  /\ Resumed
  /\ \E answer \in ProviderAnswers :
       LET q == DiscoveryQuery(classification.subject, classification.context)
           r == search_tool(answer, DiscoveryMaxResults)
       IN /\ calls' = Append(calls, Call("search_tool", q))
          /\ searchAnswer' = answer
          /\ IF r.raised
             THEN /\ failed' = "search_tool"
                  /\ pc' = "raised"
                  /\ client' = "closed"
                  /\ UNCHANGED <<initial_search_results, emitted>>
             ELSE /\ initial_search_results' = r.results
                  /\ emitted' = Append(emitted, StatusPlanning)
                  /\ pc' = "plan"
                  /\ UNCHANGED <<client, failed>>
  /\ UNCHANGED <<clientsCreated, classification, angles, sections, synthesis_prompt,
                 report>>
  /\ UNCHANGED <<consumerVars, workerVars, toolVars>>

\* lines 173-175
PlanCall ==
  /\ pc = "plan"
  /\ Resumed
  /\ calls' = Append(calls,
       Call("planner", PlanPrompt(classification.subject, classification.context,
                                  InitialContext(initial_search_results))))
  /\ pc' = "await_plan"
  /\ UNCHANGED <<client, clientsCreated, emitted, failed>>
  /\ UNCHANGED <<consumerVars, stageVars, workerVars, toolVars>>

\* lines 176-179
PlanReturn ==
  /\ pc = "await_plan"
  /\ \E plan \in Plans :
       /\ angles' = plan
       /\ emitted' = Append(emitted, StatusDeepDive(plan))
  /\ pc' = "deep_dive"
  /\ UNCHANGED <<client, clientsCreated, calls, failed>>
  /\ UNCHANGED <<classification, initial_search_results, searchAnswer, sections,
                 synthesis_prompt, report>>
  /\ UNCHANGED <<consumerVars, workerVars, toolVars>>

\* a retry: a failed planner call is made again
PlanFailRetry ==
  /\ pc = "await_plan"
  /\ pc' = "plan"
  /\ UNCHANGED <<client, clientsCreated, emitted, calls, failed>>
  /\ UNCHANGED <<consumerVars, stageVars, workerVars, toolVars>>

PlanFail ==
  /\ pc = "await_plan"
  /\ Abort("planner")

\* the fan-out over angles[1:]: the first angle gets no worker
GatherStartSkipsFirst ==
  /\ pc = "deep_dive"
  /\ Resumed
  /\ wstate' = [i \in 1..(Len(angles) - 1) |-> "running"]
  /\ wresult' = [i \in 1..(Len(angles) - 1) |-> NoValue]
  /\ calls' = calls \o [i \in 1..(Len(angles) - 1) |->
                          Call("worker", WorkerPrompt(angles[i + 1], classification.subject))]
  /\ pc' = "gather"
  /\ UNCHANGED <<client, clientsCreated, emitted, failed, toolsUsed, completed, fetchAfterClose>>
  /\ UNCHANGED <<consumerVars, stageVars, toolVars>>

\* lines 181-190: gather wraps every process_angle(angle) in a task; each task
\* calls research_worker_agent.run with its angle's prompt
GatherStart ==
  /\ pc = "deep_dive"
  /\ Resumed
  /\ wstate' = [i \in 1..Len(angles) |-> "running"]
  /\ wresult' = [i \in 1..Len(angles) |-> NoValue]
  /\ calls' = calls \o [i \in 1..Len(angles) |->
                          Call("worker", WorkerPrompt(angles[i], classification.subject))]
  /\ pc' = "gather"
  /\ UNCHANGED <<client, clientsCreated, emitted, failed, toolsUsed, completed, fetchAfterClose>>
  /\ UNCHANGED <<consumerVars, stageVars, toolVars>>

\* the backend asks task i for the `search` tool (lines 125-128)
WorkerSearch(i) ==
  /\ wstate[i] = "running"
  /\ toolsUsed < MaxToolCalls
  /\ \E raised \in {search_tool(answer, DefaultMaxResults).raised : answer \in ProviderAnswers} :
       IF raised
       THEN wstate' = [wstate EXCEPT ![i] = "failed"] /\ UNCHANGED toolsUsed
       ELSE toolsUsed' = toolsUsed + 1 /\ UNCHANGED wstate
  /\ UNCHANGED <<wresult, completed, fetchAfterClose>>
  /\ UNCHANGED <<pc, client, clientsCreated, emitted, calls, failed>>
  /\ UNCHANGED <<consumerVars, stageVars, toolVars>>

\* the backend asks task i for the `fetch_page` tool (lines 130-133), which
\* sends through the run's client, deps.client
WorkerFetch(i) ==
  /\ wstate[i] = "running"
  /\ toolsUsed < MaxToolCalls
  /\ \E raised \in {fetch_page_tool(client = "open", url, response).raised :
                      url \in Urls, response \in Responses} :
       IF raised
       THEN wstate' = [wstate EXCEPT ![i] = "failed"] /\ UNCHANGED toolsUsed
       ELSE toolsUsed' = toolsUsed + 1 /\ UNCHANGED wstate
  /\ fetchAfterClose' = (fetchAfterClose \/ client = "closed")
  /\ UNCHANGED <<wresult, completed>>
  /\ UNCHANGED <<pc, client, clientsCreated, emitted, calls, failed>>
  /\ UNCHANGED <<consumerVars, stageVars, toolVars>>

\* lines 185-186: the backend's final answer validates as a ResearchSection
WorkerReturn(i) ==
  /\ wstate[i] = "running"
  /\ wstate' = [wstate EXCEPT ![i] = "done"]
  /\ wresult' = [wresult EXCEPT ![i] = ResearchSection(i, angles[i])]
  /\ completed' = Append(completed, i)
  /\ UNCHANGED <<toolsUsed, fetchAfterClose>>
  /\ UNCHANGED <<pc, client, clientsCreated, emitted, calls, failed>>
  /\ UNCHANGED <<consumerVars, stageVars, toolVars>>

\* line 185: the backend errors or its answer does not validate
WorkerFail(i) ==
  /\ wstate[i] = "running"
  /\ wstate' = [wstate EXCEPT ![i] = "failed"]
  /\ UNCHANGED <<toolsUsed, wresult, completed, fetchAfterClose>>
  /\ UNCHANGED <<pc, client, clientsCreated, emitted, calls, failed>>
  /\ UNCHANGED <<consumerVars, stageVars, toolVars>>

\* a wait for the first task only (asyncio.wait, FIRST_COMPLETED): the sections
\* are those of the tasks that have returned by then
GatherReturnFirstCompleted ==
  /\ pc = "gather"
  /\ ~GatherRaises(wstate)
  /\ completed # <<>> \/ wstate = <<>>
  /\ sections' = GatherByCompletion(wresult, completed)
  /\ emitted' = Append(emitted, StatusWriting)
  /\ pc' = "write"
  /\ UNCHANGED <<client, clientsCreated, calls, failed>>
  /\ UNCHANGED <<classification, initial_search_results, searchAnswer, angles,
                 synthesis_prompt, report>>
  /\ UNCHANGED <<consumerVars, workerVars, toolVars>>

\* lines 190-193: every task has finished and gather raises nothing
GatherReturn ==
  /\ pc = "gather"
  /\ ~GatherRaises(wstate)
  /\ \A i \in 1..Len(wstate) : wstate[i] # "running"
  /\ sections' = GatherResult(wresult, completed)
  /\ emitted' = Append(emitted, StatusWriting)
  /\ pc' = "write"
  /\ UNCHANGED <<client, clientsCreated, calls, failed>>
  /\ UNCHANGED <<classification, initial_search_results, searchAnswer, angles,
                 synthesis_prompt, report>>
  /\ UNCHANGED <<consumerVars, workerVars, toolVars>>

\* line 190: gather raises a task's exception; the other tasks are not cancelled
GatherRaise ==
  /\ pc = "gather"
  /\ GatherRaises(wstate)
  /\ Abort("worker")

\* lines 194-198
WriteCall ==
  /\ pc = "write"
  /\ Resumed
  /\ synthesis_prompt' = SynthesisPrompt(classification.subject, sections)
  /\ calls' = Append(calls, Call("writer", synthesis_prompt'))
  /\ pc' = "await_write"
  /\ UNCHANGED <<client, clientsCreated, emitted, failed>>
  /\ UNCHANGED <<classification, initial_search_results, searchAnswer, angles, sections,
                 report>>
  /\ UNCHANGED <<consumerVars, workerVars, toolVars>>

\* lines 199-201
WriteReturn ==
  /\ pc = "await_write"
  /\ \E out \in WriterAnswers(sections) :
       /\ report' = out
       /\ emitted' = Append(emitted, out)
  /\ pc' = "report"
  /\ UNCHANGED <<client, clientsCreated, calls, failed>>
  /\ UNCHANGED <<classification, initial_search_results, searchAnswer, angles, sections,
                 synthesis_prompt>>
  /\ UNCHANGED <<consumerVars, workerVars, toolVars>>

\* a fallback for a failed writer: an empty report is yielded instead of the exception
WriteFailRecovered ==
  /\ pc = "await_write"
  /\ failed' = "writer"
  /\ report' = ResearchReport(<<>>)
  /\ emitted' = Append(emitted, report')
  /\ pc' = "report"
  /\ UNCHANGED <<client, clientsCreated, calls>>
  /\ UNCHANGED <<classification, initial_search_results, searchAnswer, angles, sections,
                 synthesis_prompt>>
  /\ UNCHANGED <<consumerVars, workerVars, toolVars>>

WriteFail ==
  /\ pc = "await_write"
  /\ Abort("writer")

\* a closing status yielded after the report
FinishWithStatus ==
  /\ pc = "report"
  /\ Resumed
  /\ emitted' = Append(emitted, Status(<<"Done.">>))
  /\ pc' = "report"
  /\ UNCHANGED <<client, clientsCreated, calls, failed>>
  /\ UNCHANGED <<consumerVars, stageVars, workerVars, toolVars>>

\* after line 201: the generator is resumed, leaves the `async with` block and ends
Finish ==
  /\ pc = "report"
  /\ Resumed
  /\ client' = "closed"
  /\ pc' = "done"
  /\ UNCHANGED <<clientsCreated, emitted, calls, failed>>
  /\ UNCHANGED <<consumerVars, stageVars, workerVars, toolVars>>

Worker ==
  \E i \in 1..Len(wstate) :
    \/ WorkerSearch(i)
    \/ WorkerFetch(i)
    \/ WorkerReturn(i)
    \/ WorkerFail(i)

Next ==
  \/ InteractEmpty
  \/ InteractStart
  \/ DirectStart
  \/ Consume
  \/ ConsumerEnd
  \/ Start
  \/ ClassifyCall
  \/ ClassifyReturn
  \/ ClassifyFail
  \/ YieldDiscovery
  \/ Discovery
  \/ PlanCall
  \/ PlanReturn
  \/ PlanFail
  \/ GatherStart
  \/ Worker
  \/ GatherReturn
  \/ GatherRaise
  \/ WriteCall
  \/ WriteReturn
  \/ WriteFail
  \/ Finish

Spec == Init /\ [][Next]_vars

(* The event loop runs every coroutine that is ready: the consumer takes   *)
(* each value and asks for the next, and deep_research continues from each *)
(* yield and each completed await.  Every awaited call (classifier,        *)
(* planner, each worker with its tool-calling loop, writer) is assumed to  *)
(* return or fail eventually.                                              *)
ConsumerStep == InteractEmpty \/ InteractStart \/ DirectStart \/ Consume \/ ConsumerEnd

GeneratorStep ==
  \/ Start \/ ClassifyCall \/ YieldDiscovery \/ Discovery \/ PlanCall \/ GatherStart
  \/ GatherReturn \/ GatherRaise \/ WriteCall \/ Finish

AwaitedCallEnds ==
  ClassifyReturn \/ ClassifyFail \/ PlanReturn \/ PlanFail \/ WriteReturn \/ WriteFail

WorkerEnds == \E i \in 1..Len(wstate) : WorkerReturn(i) \/ WorkerFail(i)

Fairness ==
  /\ WF_vars(ConsumerStep)
  /\ WF_vars(GeneratorStep)
  /\ WF_vars(AwaitedCallEnds)
  /\ WF_vars(WorkerEnds)

FairSpec == Init /\ [][Next]_vars /\ Fairness

\* ------------------------------------------------- the tools on their own
ToolInit ==
  /\ entry = "direct"
  /\ user_input = <<"NVDA">>
  /\ history = <<>>
  /\ PipelineInit
  /\ ToolIdle

\* one call of fetch_page_tool(ctx, url), with ctx.deps.client open or closed
FetchPageCall ==
  /\ toolCalls < MaxCalls
  /\ \E open \in BOOLEAN, url \in Urls, response \in Responses :
       /\ toolIn' = [tool |-> "fetch_page_tool", clientOpen |-> open, url |-> url,
                     response |-> response]
       /\ toolOut' = fetch_page_tool(open, url, response)
  /\ toolCalls' = toolCalls + 1
  /\ UNCHANGED <<pc, client, clientsCreated, emitted, calls, failed>>
  /\ UNCHANGED <<consumerVars, stageVars, workerVars>>

\* one call of search_tool(query, max_results)
SearchCall ==
  /\ toolCalls < MaxCalls
  /\ \E answer \in ProviderAnswersUpTo(MaxToolHits),
        max_results \in {DiscoveryMaxResults, DefaultMaxResults} :
       /\ toolIn' = [tool |-> "search_tool", answer |-> answer, max_results |-> max_results]
       /\ toolOut' = search_tool(answer, max_results)
  /\ toolCalls' = toolCalls + 1
  /\ UNCHANGED <<pc, client, clientsCreated, emitted, calls, failed>>
  /\ UNCHANGED <<consumerVars, stageVars, workerVars>>

ToolNext == FetchPageCall \/ SearchCall

ToolSpec == ToolInit /\ [][ToolNext]_vars

\* ------------------------------------------------------------------ claims
IsPrefix(s, t) == Len(s) <= Len(t) /\ \A i \in 1..Len(s) : s[i] = t[i]

HasReport(stream) == \E i \in 1..Len(stream) : stream[i].type = "ResearchReport"

ReportEmitted == HasReport(emitted)

Callers == [k \in 1..Len(calls) |-> calls[k].who]

CallsOf(who) == SelectSeq(calls, LAMBDA c : c.who = who)

\* the tokens that follow each occurrence of `marker` in a prompt, in order
After(prompt, marker) ==
  LET at == SelectSeq([k \in 1..Len(prompt) |-> k], LAMBDA k : prompt[k] = marker)
  IN [j \in 1..Len(at) |-> prompt[at[j] + 1]]

WellShaped(stream) ==
  \A i \in 1..Len(stream) :
    /\ stream[i].type \in {"str", "ResearchReport"}
    /\ stream[i].type = "ResearchReport" => i = Len(stream)

(* C1: in every run, finished or aborted, the stream is zero or more       *)
(* status strings followed by at most one ResearchReport: a report is only *)
(* ever the last element, and once it has been yielded nothing more is     *)
(* yielded; values are only ever appended to the stream.                   *)
C1_StreamShape ==
  /\ [](WellShaped(emitted) /\ WellShaped(received))
  /\ [][/\ IsPrefix(emitted, emitted')
        /\ ReportEmitted => emitted' = emitted]_vars

C1_Witness == ReportEmitted /\ pc = "done" /\ ipc = "done" /\ client = "closed"

(* C2: whenever a report has been yielded, what precedes it is exactly the *)
(* six statuses analyzing, identified: subject (context), discovery,       *)
(* planning, deep dive into N angles (N = len(angles)), writing, in that   *)
(* order; and the consumer has always received a prefix of what was        *)
(* yielded, so it sees the values in the order they were yielded.          *)
C2_SixStatusesThenReport ==
  /\ IsPrefix(received, emitted)
  /\ ReportEmitted =>
       emitted =
         << [type |-> "str", text |-> <<"Analyzing request...">>],
            [type |-> "str",
             text |-> <<"Identified: ", classification.subject, " (",
                        classification.context, ")">>],
            [type |-> "str", text |-> <<"Performing initial discovery search...">>],
            [type |-> "str", text |-> <<"Planning research strategy...">>],
            [type |-> "str",
             text |-> <<"Starting deep dive into ", Str(Len(angles)),
                        " research angles...">>],
            [type |-> "str", text |-> <<"Writing final report...">>],
            report >>

C2_Witness == HasReport(received) /\ Len(received) = 7 /\ Len(angles) = 3

Gathered == pc \in {"write", "await_write", "report", "done"} \/ failed = "writer"

PromptBuilt == pc \in {"await_write", "report", "done"} \/ failed = "writer"

(* C3: whatever order the N workers return in, gather hands back N         *)
(* sections and sections[i] is the section of the worker that was given    *)
(* angles[i]; the synthesis prompt lists the sections' blocks in that same *)
(* order.                                                                  *)
C3_GatherKeepsAngleOrder ==
  /\ Gathered =>
       /\ Len(sections) = Len(angles)
       /\ \A i \in 1..Len(angles) :
            /\ sections[i] = wresult[i]
            /\ sections[i].title = angles[i].title
            /\ sections[i].content = <<"findings of worker ", Str(i)>>
  /\ PromptBuilt =>
       /\ After(synthesis_prompt, "## ") = [i \in 1..Len(angles) |-> angles[i].title]
       /\ After(synthesis_prompt, "findings of worker ") = [i \in 1..Len(angles) |-> Str(i)]

C3_Witness ==
  /\ PromptBuilt
  /\ Len(angles) = 3
  /\ completed = <<3, 1, 2>>

(* C4 as stated: the emitted report's sections are as many as the          *)
(* planner's angles and sections[i] of the report is the section of the    *)
(* worker given angles[i].                                                 *)
C4_ReportSectionsMatchAngles ==
  ReportEmitted =>
    /\ Len(report.sections) = Len(angles)
    /\ \A i \in 1..Len(angles) :
         /\ report.sections[i].title = angles[i].title
         /\ report.sections[i].content = <<"findings of worker ", Str(i)>>

(* C4 amended: in every run that yields a report, the writer was called    *)
(* once, with a prompt that holds exactly one block per angle of the plan, *)
(* block i built from the section of the worker given angles[i]; the       *)
(* yielded report is the writer's answer unchanged (the code relates the   *)
(* sections of that answer to the angles in no other way).                 *)
C4_WriterPromptMatchesAngles ==
  ReportEmitted =>
    /\ Len(CallsOf("writer")) = 1
    /\ LET prompt == CallsOf("writer")[1].arg
       IN /\ prompt[1] = "Subject: " /\ prompt[2] = classification.subject
          /\ After(prompt, "## ") = [i \in 1..Len(angles) |-> angles[i].title]
          /\ After(prompt, "findings of worker ") = [i \in 1..Len(angles) |-> Str(i)]
          /\ Len(After(prompt, "\nSources: ")) = Len(angles)
    /\ emitted[Len(emitted)] = report
    /\ report.type = "ResearchReport"

C4_Witness ==
  /\ ReportEmitted
  /\ Len(angles) = 3
  /\ Len(report.sections) = 2

(* C5 as stated: with the empty string as input nothing is yielded, no     *)
(* inference caller and no search is invoked, and no report is yielded.    *)
C5_EmptyInputRunsNothing ==
  user_input = <<>> =>
    /\ emitted = <<>>
    /\ calls = <<>>
    /\ report = NoValue

(* C5 amended: when the message given to interact is empty, interact ends  *)
(* without starting deep_research: nothing is yielded, no client is        *)
(* created, no inference caller and no search is invoked, no report is     *)
(* yielded and the history is left as it was.  (deep_research does not     *)
(* test its argument.)                                                     *)
C5_InteractSkipsEmptyMessage ==
  (entry = "interact" /\ user_input = <<>>) =>
    /\ ipc \in {"start", "done"}
    /\ pc = "init"
    /\ emitted = <<>>
    /\ received = <<>>
    /\ calls = <<>>
    /\ clientsCreated = 0
    /\ report = NoValue
    /\ history \in Histories

C5_Witness == entry = "interact" /\ user_input = <<>> /\ ipc = "done"

SearchFailed ==
  /\ searchAnswer # NoValue
  /\ searchAnswer.failAfter >= 0
  /\ searchAnswer.failAfter <= Min(searchAnswer.hits, 3)

PlannerPrompts == CallsOf("planner")

(* C6 as stated: if the provider fails during the discovery search, the    *)
(* search returns the empty sequence, the discovery context is the empty   *)
(* string, and the planner is still invoked, with the empty context.       *)
C6_FailedSearchGivesEmptyContext ==
  SearchFailed =>
    /\ failed # "search_tool"
    /\ initial_search_results = <<>>
    /\ \A k \in 1..Len(PlannerPrompts) :
         PlannerPrompts[k].arg =
           <<"Topic: ", classification.subject, "\nContext: ", classification.context,
             "\nInitial Search Context:\n">>

(* C6 amended: if the provider fails during the discovery search, the      *)
(* search does not raise: it returns the results received before the       *)
(* failure (none when the failure comes before the first result, and then  *)
(* the discovery context is the empty string); the run is not aborted by   *)
(* the search, "Planning research strategy..." is yielded, and the planner *)
(* is invoked next, with the context built from those results.             *)
C6_FailedSearchStillPlans ==
  SearchFailed =>
    /\ failed # "search_tool"
    /\ Len(initial_search_results) = searchAnswer.failAfter
    /\ \A k \in 1..Len(initial_search_results) :
         /\ initial_search_results[k].title = <<"title", Str(k)>>
         /\ initial_search_results[k].body = <<"body", Str(k)>>
    /\ Len(emitted) >= 4
    /\ emitted[4] = [type |-> "str", text |-> <<"Planning research strategy...">>]
    /\ (pc = "plan" /\ Resumed) => ENABLED PlanCall
    /\ \A k \in 1..Len(PlannerPrompts) :
         LET prompt == PlannerPrompts[k].arg
         IN /\ SubSeq(prompt, 1, 5) =
                 <<"Topic: ", classification.subject, "\nContext: ",
                   classification.context, "\nInitial Search Context:\n">>
            /\ After(prompt, "title") = [j \in 1..searchAnswer.failAfter |-> Str(j)]
            /\ searchAnswer.failAfter = 0 => Len(prompt) = 5

C6_Witness ==
  /\ SearchFailed
  /\ searchAnswer.failAfter = 0
  /\ searchAnswer.hits = 1
  /\ Len(PlannerPrompts) = 1
  /\ pc = "deep_dive"

(* C7: a failed inference call (classifier, planner, a worker, writer) is  *)
(* not recovered: the stream has ended with that call's exception, it      *)
(* holds no report and no status of a later stage, and no inference caller *)
(* of a later stage has been invoked.                                      *)
C7_InferenceFailureAborts ==
  /\ failed \in {"none", "classifier", "planner", "worker", "writer"}
  /\ failed # "none" =>
       /\ pc = "raised"
       /\ ipc \in {"iter", "raised"}
       /\ ~ReportEmitted
       /\ report = NoValue
  /\ failed = "classifier" =>
       /\ Len(emitted) = 1
       /\ Callers = <<"classifier">>
  /\ failed = "planner" =>
       /\ Len(emitted) = 4
       /\ Callers = <<"classifier", "search_tool", "planner">>
  /\ failed = "worker" =>
       /\ Len(emitted) = 5
       /\ Len(CallsOf("writer")) = 0
       /\ [type |-> "str", text |-> <<"Writing final report...">>] \notin Range(emitted)
  /\ failed = "writer" =>
       /\ Len(emitted) = 6
       /\ Callers[Len(Callers)] = "writer"

C7_Witness == failed = "writer" /\ ipc = "raised" /\ Len(angles) = 2

SomeWorkerFailed == \E i \in 1..Len(wstate) : wstate[i] = "failed"

(* C8: stage 4 is all or nothing: once a worker has failed, in any         *)
(* interleaving and whatever the other workers do, gather can only raise:  *)
(* no section reaches the synthesis prompt, "Writing final report..." is   *)
(* not yielded and the writer is not invoked.                              *)
C8_OneFailureFailsTheStage ==
  SomeWorkerFailed =>
    /\ pc \in {"gather", "raised"}
    /\ pc = "gather" => (ENABLED GatherRaise /\ ~ENABLED GatherReturn)
    /\ pc = "raised" => failed = "worker"
    /\ sections = <<>>
    /\ synthesis_prompt = <<>>
    /\ Len(CallsOf("writer")) = 0
    /\ [type |-> "str", text |-> <<"Writing final report...">>] \notin Range(emitted)
    /\ ~ReportEmitted

C8_Witness ==
  /\ Len(wstate) = 3
  /\ wstate[2] = "failed"
  /\ wstate[1] = "done"
  /\ wstate[3] = "done"
  /\ ipc = "raised"

(* C9: one client is created per run, and once it has been released no     *)
(* worker is still running and no worker has sent a request through it.    *)
C9_NoWorkerOutlivesClient ==
  /\ clientsCreated <= 1
  /\ client = "closed" =>
       /\ \A i \in 1..Len(wstate) : wstate[i] # "running"
       /\ ~fetchAfterClose

FetchCalled == toolIn # NoValue /\ toolIn.tool = "fetch_page_tool"

(* C10: fetch_page_tool never raises: it makes one attempt; when the       *)
(* request fails (network error, timeout, HTTP error status, parse         *)
(* failure, a closed client) it returns a string that starts with "Error"  *)
(* and names the URL and the failure; otherwise it returns the page text   *)
(* cut to at most 10,000 characters.                                       *)
C10_FetchNeverRaises ==
  FetchCalled =>
    /\ toolOut.raised = FALSE
    /\ toolOut.attempts = 1
    /\ (toolIn.response.error # "none" \/ ~toolIn.clientOpen) =>
         /\ toolOut.text[1] = "Error fetching "
         /\ toolOut.text[2] = toolIn.url
         /\ toolIn.clientOpen => toolOut.text[4] = toolIn.response.error
    /\ (toolIn.response.error = "none" /\ toolIn.clientOpen) =>
         /\ toolOut.length <= 10000
         /\ toolOut.length = Min(toolIn.response.length, 10000)
         /\ toolOut.text = <<"text of ", toolIn.url>>

C10_Witness ==
  /\ FetchCalled
  /\ toolIn.clientOpen
  /\ toolIn.response.error = "TimeoutException"
  /\ toolOut.text[1] = "Error fetching "
  /\ toolCalls = 2

SearchCalled == toolIn # NoValue /\ toolIn.tool = "search_tool"

\* the provider raised during this call of search_tool
SearchErrored ==
  /\ toolIn.answer.failAfter >= 0
  /\ toolIn.answer.failAfter <= Min(toolIn.answer.hits, toolIn.max_results)

\* the first n results in the provider's order
FirstHits(n) ==
  [k \in 1..n |-> [title |-> <<"title", Str(k)>>, href |-> <<"href", Str(k)>>,
                   body |-> <<"body", Str(k)>>]]

(* C11 as stated: search_tool never raises; on any provider error, before  *)
(* the first result or after some results, it returns the empty sequence;  *)
(* without an error it returns the provider's results in provider order.   *)
C11_SearchErrorGivesEmpty ==
  SearchCalled =>
    /\ toolOut.raised = FALSE
    /\ SearchErrored => toolOut.results = <<>>
    /\ ~SearchErrored =>
         toolOut.results = FirstHits(Min(toolIn.answer.hits, toolIn.max_results))

(* C11 amended: search_tool never raises; on a provider error it returns   *)
(* the results received before the error, in provider order (the empty     *)
(* sequence only when the error comes before the first result); without an *)
(* error it returns the provider's results, at most max_results of them,   *)
(* in provider order.                                                      *)
C11_SearchKeepsReceivedResults ==
  SearchCalled =>
    /\ toolOut.raised = FALSE
    /\ SearchErrored => toolOut.results = FirstHits(toolIn.answer.failAfter)
    /\ (SearchErrored /\ toolIn.answer.failAfter = 0) => toolOut.results = <<>>
    /\ ~SearchErrored =>
         toolOut.results = FirstHits(Min(toolIn.answer.hits, toolIn.max_results))

C11_Witness ==
  /\ SearchCalled
  /\ SearchErrored
  /\ toolIn.answer.failAfter = 2
  /\ toolIn.answer.hits = 6
  /\ toolIn.max_results = 5
  /\ Len(toolOut.results) = 2

Stage4Reached ==
  pc \in {"gather", "write", "await_write", "report", "done"} \/ failed \in {"worker", "writer"}

(* C12: in every run that reaches stage 4 the number of angles dispatched  *)
(* to workers is 3 or 4, so the synthesis prompt of a written report is    *)
(* never built from an empty set of sections.                              *)
C12_ThreeOrFourAngles ==
  /\ Stage4Reached => Len(angles) \in {3, 4}
  /\ ReportEmitted => sections # <<>>

ExpectedCallers(n) ==
  <<"classifier", "search_tool", "planner">> \o [k \in 1..n |-> "worker"] \o <<"writer">>

(* C13: the stages run strictly in sequence, with no loop-back or retry:   *)
(* the classifier, the discovery search, the planner and the writer are    *)
(* each invoked at most once, in that order, each only after the call      *)
(* before it has returned; no worker is started before the planner has     *)
(* returned, and the writer only after all N workers have returned.        *)
C13_StagesInSequence ==
  /\ IsPrefix(Callers, ExpectedCallers(Len(angles)))
  /\ \A who \in {"classifier", "search_tool", "planner", "writer"} : Len(CallsOf(who)) <= 1
  /\ pc = "await_classify" => Callers = <<"classifier">>
  /\ Len(CallsOf("search_tool")) = 1 =>
       (classification # NoValue /\ pc \notin {"init", "classify", "await_classify"})
  /\ Len(CallsOf("planner")) = 1 => (searchAnswer # NoValue /\ Len(emitted) >= 4)
  /\ pc = "await_plan" => Callers = <<"classifier", "search_tool", "planner">>
  /\ Len(CallsOf("worker")) > 0 =>
       /\ Stage4Reached
       /\ Len(emitted) >= 5
       /\ Len(CallsOf("worker")) = Len(angles)
  /\ Len(CallsOf("writer")) = 1 =>
       /\ pc \in {"await_write", "report", "done", "raised"}
       /\ Len(wstate) = Len(angles)
       /\ \A i \in 1..Len(wstate) : wstate[i] = "done"
       /\ Len(completed) = Len(angles)
       /\ Callers = ExpectedCallers(Len(angles))

C13_Witness ==
  /\ pc = "done"
  /\ Len(angles) = 3
  /\ Callers = <<"classifier", "search_tool", "planner", "worker", "worker", "worker", "writer">>

WorkerCalls == CallsOf("worker")

(* C14: in every run that reaches stage 4 with angles[0..N-1] the worker   *)
(* is invoked exactly N times, the i-th invocation with the prompt of the  *)
(* i-th angle (none skipped, duplicated or retried), and all N are         *)
(* launched before any of their results exists; before stage 4 no worker   *)
(* is invoked.                                                             *)
C14_OneWorkerPerAngle ==
  /\ ~Stage4Reached => (WorkerCalls = <<>> /\ wstate = <<>> /\ completed = <<>>)
  /\ Stage4Reached =>
       /\ Len(WorkerCalls) = Len(angles)
       /\ Len(wstate) = Len(angles)
       /\ \A i \in 1..Len(WorkerCalls) :
            /\ After(WorkerCalls[i].arg, "Investigate the angle: '") = <<angles[i].title>>
            /\ After(WorkerCalls[i].arg, "\nSubject: ") = <<classification.subject>>
  /\ (\E i \in 1..Len(wstate) : wstate[i] # "running") => Len(WorkerCalls) = Len(angles)
  /\ Cardinality(Range(completed)) = Len(completed)
  /\ \A i \in 1..Len(wstate) : (wresult[i] # NoValue) <=> (i \in Range(completed))

C14_Witness ==
  /\ pc = "gather"
  /\ Len(angles) = 3
  /\ wstate = <<"running", "done", "running">>
  /\ Len(WorkerCalls) = 3

\* how many tokens of a text equal `marker`
Count(text, marker) == Len(SelectSeq(text, LAMBDA t : t = marker))

\* whether `md` is the Markdown interact renders for `update`
IsRendering(md, user_message, update) ==
  /\ md[1] = "# Research Report: "
  /\ SubSeq(md, 2, 1 + Len(user_message)) = user_message
  /\ After(md, "## Executive Summary\n") = <<update.executive_summary>>
  /\ After(md, "### ") = [k \in 1..Len(update.sections) |-> update.sections[k].title]
  /\ Count(md, "**Sources:**\n") =
       Cardinality({k \in 1..Len(update.sections) : update.sections[k].sources # <<>>})
  /\ After(md, "## Risks & Uncertainties\n") = <<update.risks_uncertainties>>
  /\ Count(md, "## What to Watch Next\n") = 1
  /\ md[Len(md)] = update.what_to_watch_next[Len(update.what_to_watch_next)]

(* C15: for a non-empty message and a stream of k >= 1 statuses possibly   *)
(* followed by a report, interact appends one user turn and one assistant  *)
(* turn to the history it was given: the first status appends the          *)
(* assistant turn, each later status overwrites its content, the report    *)
(* replaces it with the rendered Markdown; the user turn and the earlier   *)
(* entries stay as they were.                                              *)
C15_OneUserOneAssistantTurn ==
  (entry = "interact" /\ user_input # <<>> /\ ipc # "start") =>
    \E h0 \in Histories :
      /\ IsPrefix(h0, history)
      /\ history[Len(h0) + 1] = [role |-> "user", content |-> user_input]
      /\ Len(history) = Len(h0) + 1 + (IF received = <<>> THEN 0 ELSE 1)
      /\ received # <<>> =>
           LET update == received[Len(received)]
               turn == history[Len(history)]
           IN /\ turn.role = "assistant"
              /\ update.type = "str" => turn.content = update.text
              /\ update.type = "ResearchReport" =>
                   IsRendering(turn.content, user_input, update)

C15_Witness ==
  /\ entry = "interact"
  /\ Len(history) = 4
  /\ Len(received) = 7
  /\ received[7].type = "ResearchReport"
  /\ Len(received[7].sections) = 3
  /\ history[4].content[1] = "# Research Report: "
  /\ history[2].content = <<"an earlier report">>

Terminated == ipc \in {"done", "raised"}

SomeWorkerRunning == \E i \in 1..Len(wstate) : wstate[i] = "running"

(* C16: when every awaited call eventually returns or fails, every run     *)
(* eventually terminates; a run of deep_research that terminates without   *)
(* any call having failed has reached the end of the write stage and has   *)
(* yielded the report as its last value.  While a worker is still running  *)
(* (so for ever, if it never stops requesting tools) the run is not past   *)
(* the gather, the writer has not been invoked and no report is yielded.   *)
C16_TerminatesAtWriteStage ==
  /\ <>Terminated
  /\ [](Terminated /\ failed = "none" /\ pc # "init" =>
          /\ ipc = "done"
          /\ pc = "done"
          /\ Len(emitted) = 7
          /\ emitted[7].type = "ResearchReport"
          /\ received = emitted)
  /\ [](SomeWorkerRunning =>
          /\ pc \in {"gather", "raised"}
          /\ pc = "gather" => ~ENABLED GatherReturn
          /\ Len(CallsOf("writer")) = 0
          /\ ~ReportEmitted)

C16_Witness ==
  /\ Terminated
  /\ failed = "none"
  /\ Len(angles) = 2
  /\ toolsUsed = 1
  /\ received = emitted
  /\ ReportEmitted

====
